---- MODULE Spec2Model ----
(***************************************************************************)
(* HabitPulse: the App component's state (AppData held by useLocalStorage, *)
(* the modal and form state) and its handlers, the StatsBanner memo, the   *)
(* useLocalStorage instances of two tabs over one store, the import and    *)
(* the WebDAV backup of SettingsView, the weeks of the two Heatmaps and    *)
(* the timer of the LongPressButton.                                       *)
(*                                                                         *)
(* JavaScript object identity is modelled where the code relies on it: an  *)
(* updater receives `prev` and returns a new AppData; `data` is the        *)
(* returned value, `before` is the value `prev` had when the updater was   *)
(* called and `prior` is the value that same `prev` object has after the   *)
(* updater returned (they differ exactly when the updater wrote through a  *)
(* shared reference).                                                      *)
(***************************************************************************)
EXTENDS Integers, Sequences, FiniteSets, TLC

---------------------------------------------------------------------------
(* Bounds of the model *)

\* habits in the collection
MaxHabits == 2
\* log entries over all habits
MaxLogs == 2
\* instants new Date() can return are 0..MaxInstant
MaxInstant == 1
\* calendar days before today that the heatmap and the month grid show
PastDays == 0
\* days before today that the stored logs of a StatsBanner input reach back
HistoryDays == 2
\* storage events queued for a tab and not yet handled
MaxPending == 1
\* days after the first one that the page can be rendered on
TodaySpan == 13
\* calls of setTimeout by one LongPressButton
MaxTimers == 4
\* instants a backup file name can spell are 0..MaxStamp
MaxStamp == 2
\* the backupCount settings are 0..MaxRetention
MaxRetention == 2

---------------------------------------------------------------------------
(* Values *)

Instants == 0..MaxInstant
\* format(new Date(), 'yyyy-MM-dd'): day identifiers are numbered, today is
\* PastDays, the days after today are above it
Today == PastDays
Days == 0..(PastDays + 1)
NullDate == 0 - 1
\* todayKey of the banner, and the days its input has entries on
BannerToday == HistoryDays
BannerDays == 0..HistoryDays
\* no timestamp on a log entry
NoTimestamp == 0 - 1

\* generateId() draws from Math.random(): nothing makes two draws differ
Ids == {"k3x", "p0q"}
NullId == "null"

\* `undefined` as the value of an optional string field
Undefined == "undefined"
\* what the user can type into a text field
Texts == {"", " ", "a"}

\* the texts typed into the note field of a log
Notes == Texts \cup {" a"}
HABIT_COLORS == <<"#10b981", "#3b82f6">>

\* trim that leaves blanks in place
trim_none(s) == s

\* String.prototype.trim on the texts of the model
trim(s) == IF s = " " THEN "" ELSE IF s = " a" THEN "a" ELSE s

\* JavaScript truthiness of an optional string
Truthy(s) == s # Undefined /\ s # ""

INITIAL_DATA ==
    [habits |-> <<>>,
     settings |-> [theme |-> "system", userName |-> "User", language |-> "zh",
                   weekStart |-> "monday", splitMonths |-> TRUE]]

---------------------------------------------------------------------------
(* Records and collections *)

\* a DailyLog object
DailyLog(date, completed, note, timestamp) ==
    [date |-> date, completed |-> completed, note |-> note, timestamp |-> timestamp]

\* Record<string, DailyLog> with no key
NoLogs == [d \in {} |-> DailyLog(0, FALSE, Undefined, 0)]

\* obj[key] = value on a copy
Put(logs, key, value) ==
    [d \in (DOMAIN logs) \cup {key} |-> IF d = key THEN value ELSE logs[d]]

\* delete obj[key] on a copy
Remove(logs, key) == [d \in (DOMAIN logs) \ {key} |-> logs[d]]

\* Array.prototype.find, as the index of the first match (0 when none)
FindIndex(habits, id) ==
    IF \E i \in 1..Len(habits) : habits[i].id = id
    THEN CHOOSE i \in 1..Len(habits) :
            /\ habits[i].id = id
            /\ \A j \in 1..(i - 1) : habits[j].id # id
    ELSE 0

HasHabit(d, id) == FindIndex(d.habits, id) # 0

\* number of log entries in an AppData
RECURSIVE LogCountOf(_)
LogCountOf(habits) ==
    IF habits = <<>> THEN 0
    ELSE Cardinality(DOMAIN Head(habits).logs) + LogCountOf(Tail(habits))

\* a Habit object as saveHabit creates it
Habit(id, title, color, createdAt) ==
    [id |-> id, title |-> title, color |-> color, createdAt |-> createdAt,
     logs |-> NoLogs, archived |-> FALSE]

\* h.logs[key] exists
HasLog(h, key) == key \in DOMAIN h.logs

\* !!h.logs[key]?.completed
IsCompleted(h, key) == HasLog(h, key) /\ h.logs[key].completed

\* log?.note || ''
NoteOrEmpty(h, key) ==
    IF HasLog(h, key) /\ Truthy(h.logs[key].note) THEN h.logs[key].note ELSE ""

---------------------------------------------------------------------------
(* The updaters passed to setData.  Each yields `ret`, the AppData it      *)
(* returns, and `arg`, the value of the `prev` object once it has run.     *)

\* toggleOff that keeps every unchecked entry
toggleOff_keep(logs, key) ==
    LET written == Put(logs, key, [logs[key] EXCEPT !.completed = FALSE])
    IN  [new |-> written, old |-> written]

\* toggleOff that drops every unchecked entry
toggleOff_drop(logs, key) == [new |-> Remove(logs, key), old |-> logs]

\* toggle off: newLogs is a shallow copy of h.logs, so newLogs[key] is the
\* entry object of h.logs; `new` is newLogs and `old` is h.logs afterwards
toggleOff(logs, key) ==
    IF Truthy(logs[key].note)
    THEN LET written == Put(logs, key, [logs[key] EXCEPT !.completed = FALSE])
         IN  [new |-> written, old |-> written]
    ELSE [new |-> Remove(logs, key), old |-> logs]

\* toggle on from the habit card: { ...newLogs[todayKey], date, completed, timestamp }
toggleOnToday(logs, todayKey, nowIso) ==
    Put(logs, todayKey,
        DailyLog(todayKey, TRUE,
                 IF todayKey \in DOMAIN logs THEN logs[todayKey].note ELSE Undefined,
                 nowIso))

\* toggle on from the calendar:
\* note: newLogs[dateKey]?.note || logFormNote || undefined
toggleOnDate(logs, dateKey, nowIso, formNote) ==
    Put(logs, dateKey,
        DailyLog(dateKey, TRUE,
                 IF dateKey \in DOMAIN logs /\ Truthy(logs[dateKey].note)
                 THEN logs[dateKey].note
                 ELSE IF Truthy(formNote) THEN formNote ELSE Undefined,
                 nowIso))

\* prev.habits.map(h => h.id !== habitId ? h : { ...h, logs: newLogs }), where
\* f[i] holds, for the habit at i, the newLogs the callback builds (`new`)
\* and what h.logs holds once the callback has run (`old`)
MapLogs(prev, habitId, f) ==
    [ret |-> [prev EXCEPT !.habits =
                [i \in 1..Len(prev.habits) |->
                    IF prev.habits[i].id # habitId THEN prev.habits[i]
                    ELSE [prev.habits[i] EXCEPT !.logs = f[i].new]]],
     arg |-> [prev EXCEPT !.habits =
                [i \in 1..Len(prev.habits) |->
                    IF prev.habits[i].id # habitId THEN prev.habits[i]
                    ELSE [prev.habits[i] EXCEPT !.logs = f[i].old]]]]

\* the updater of toggleToday
toggleTodayUpdater(prev, habitId, todayKey, nowIso) ==
    MapLogs(prev, habitId,
            [i \in 1..Len(prev.habits) |->
                LET h == prev.habits[i]
                IN  IF IsCompleted(h, todayKey)
                    THEN toggleOff(h.logs, todayKey)
                    ELSE [new |-> toggleOnToday(h.logs, todayKey, nowIso),
                          old |-> h.logs]])

\* the updater of toggleDateCompletion
toggleDateUpdater(prev, habitId, dateKey, nowIso, formNote) ==
    MapLogs(prev, habitId,
            [i \in 1..Len(prev.habits) |->
                LET h == prev.habits[i]
                IN  IF IsCompleted(h, dateKey)
                    THEN toggleOff(h.logs, dateKey)
                    ELSE [new |-> toggleOnDate(h.logs, dateKey, nowIso, formNote),
                          old |-> h.logs]])

\* a default entry dated today whatever the day asked for
ExistingLog_today(h, dateKey) ==
    IF HasLog(h, dateKey) THEN h.logs[dateKey]
    ELSE DailyLog(Today, FALSE, Undefined, NoTimestamp)

\* h.logs[dateKey] || { date: dateKey, completed: false }
ExistingLog(h, dateKey) ==
    IF HasLog(h, dateKey) THEN h.logs[dateKey]
    ELSE DailyLog(dateKey, FALSE, Undefined, NoTimestamp)

\* existingLog.timestamp || new Date().toISOString()
TimestampOr(log, nowIso) == IF log.timestamp # NoTimestamp THEN log.timestamp ELSE nowIso

\* newLog that leaves `completed` as the entry has it
forcedLog_unforced(existingLog, note, nowIso) ==
    [existingLog EXCEPT !.note = note,
                        !.timestamp = TimestampOr(existingLog, nowIso)]

\* newLog of saveLogDetails
forcedLog(existingLog, note, nowIso) ==
    [existingLog EXCEPT !.note = note,
                        !.completed = TRUE,
                        !.timestamp = TimestampOr(existingLog, nowIso)]

\* the updater of saveLogDetails
saveLogDetailsUpdater(prev, habitId, dateKey, note, nowIso) ==
    MapLogs(prev, habitId,
            [i \in 1..Len(prev.habits) |->
                LET h == prev.habits[i]
                IN  [new |-> Put(h.logs, dateKey,
                                 forcedLog(ExistingLog(h, dateKey), note, nowIso)),
                     old |-> h.logs]])

\* newLog that stores the note as typed
calendarLog_untrimmed(existingLog, noteToSave, nowIso) ==
    [existingLog EXCEPT
        !.note = IF trim(noteToSave) # "" THEN noteToSave ELSE Undefined,
        !.completed = existingLog.completed \/ trim(noteToSave) # "",
        !.timestamp = TimestampOr(existingLog, nowIso)]

\* newLog of saveCalendarLogDetails
calendarLog(existingLog, noteToSave, nowIso) ==
    [existingLog EXCEPT
        !.note = IF trim(noteToSave) # "" THEN trim(noteToSave) ELSE Undefined,
        !.completed = existingLog.completed \/ trim(noteToSave) # "",
        !.timestamp = TimestampOr(existingLog, nowIso)]

\* the updater of saveCalendarLogDetails
saveCalendarLogDetailsUpdater(prev, habitId, dateKey, noteToSave, nowIso) ==
    MapLogs(prev, habitId,
            [i \in 1..Len(prev.habits) |->
                LET h == prev.habits[i]
                IN  IF trim(noteToSave) = "" /\ ~ExistingLog(h, dateKey).completed
                    THEN [new |-> h.logs, old |-> h.logs]
                    ELSE [new |-> Put(h.logs, dateKey,
                                      calendarLog(ExistingLog(h, dateKey),
                                                  noteToSave, nowIso)),
                          old |-> h.logs]])

\* deleteLog that spares a completed entry
deleteLogUpdater_uncompleted(prev, habitId, dateKey) ==
    MapLogs(prev, habitId,
            [i \in 1..Len(prev.habits) |->
                LET h == prev.habits[i]
                IN  [new |-> IF IsCompleted(h, dateKey) THEN h.logs
                             ELSE Remove(h.logs, dateKey),
                     old |-> h.logs]])

\* the updater of deleteLog
deleteLogUpdater(prev, habitId, dateKey) ==
    MapLogs(prev, habitId,
            [i \in 1..Len(prev.habits) |->
                LET h == prev.habits[i]
                IN  [new |-> Remove(h.logs, dateKey), old |-> h.logs]])

\* prev.habits.filter(h => h.id !== id)
RECURSIVE WithoutId(_, _)
WithoutId(habits, id) ==
    IF habits = <<>> THEN <<>>
    ELSE IF Head(habits).id # id THEN <<Head(habits)>> \o WithoutId(Tail(habits), id)
         ELSE WithoutId(Tail(habits), id)

\* the updater of deleteHabit
deleteHabitUpdater(prev, id) ==
    [ret |-> [prev EXCEPT !.habits = WithoutId(prev.habits, id)], arg |-> prev]

\* updateExisting that adds the habit when no habit has the id
updateExisting_upsert(habits, id, title, color) ==
    IF \E i \in 1..Len(habits) : habits[i].id = id
    THEN [i \in 1..Len(habits) |->
            IF habits[i].id = id
            THEN [habits[i] EXCEPT !.title = title, !.color = color]
            ELSE habits[i]]
    ELSE Append(habits, Habit(id, title, color, 0))

\* the update branch of saveHabit: title and color of the habits with that id
updateExisting(habits, id, title, color) ==
    [i \in 1..Len(habits) |->
        IF habits[i].id = id
        THEN [habits[i] EXCEPT !.title = title, !.color = color]
        ELSE habits[i]]

\* the create branch of saveHabit
createNew(habits, id, title, color, nowIso) ==
    Append(habits, Habit(id, title, color, nowIso))

\* the updater of saveHabit; editing is editingHabit (<<>> when null)
saveHabitUpdater(prev, editing, title, color, newId, nowIso) ==
    [ret |-> [prev EXCEPT !.habits =
                IF editing # <<>>
                THEN updateExisting(prev.habits, editing[1].id, title, color)
                ELSE createNew(prev.habits, newId, title, color, nowIso)],
     arg |-> prev]

---------------------------------------------------------------------------
(* StatsBanner *)

\* data.habits.filter(h => !h.archived).length
RECURSIVE totalHabits(_)
totalHabits(habits) ==
    IF habits = <<>> THEN 0
    ELSE (IF Head(habits).archived THEN 0 ELSE 1) + totalHabits(Tail(habits))

\* data.habits.reduce((acc, habit) => acc + (habit.logs[todayKey]?.completed ? 1 : 0), 0)
RECURSIVE CompletedCount(_, _)
CompletedCount(habits, todayKey) ==
    IF habits = <<>> THEN 0
    ELSE (IF IsCompleted(Head(habits), todayKey) THEN 1 ELSE 0)
         + CompletedCount(Tail(habits), todayKey)

\* stats.completedToday
completedToday(habits, todayKey) ==
    IF totalHabits(habits) = 0 THEN 0 ELSE CompletedCount(habits, todayKey)

\* Math.round((completedToday / totalHabits) * 100): Math.round goes to the
\* nearest integer, halves upward
completionRate(completed, total) == (200 * completed + total) \div (2 * total)

\* activityMap: the log.date of every completed entry of every habit
activityMap(habits) ==
    UNION {{habits[i].logs[d].date :
               d \in {k \in DOMAIN habits[i].logs : habits[i].logs[k].completed}} :
           i \in 1..Len(habits)}

\* subtractDay: the day before, in the numbering of the day identifiers
subtractDay(d) == d - 1

\* the while loop: days counted backward from checkDate while they are in the set
RECURSIVE CountBack(_, _)
CountBack(active, checkDate) ==
    IF checkDate \in active
    THEN 1 + CountBack(active, subtractDay(checkDate))
    ELSE 0

\* streak that counts only from today
streak_today(habits, todayKey) == CountBack(activityMap(habits), todayKey)

\* stats.streak, past the totalHabits === 0 return
streak(habits, todayKey) ==
    LET active == activityMap(habits)
        isTodayDone == todayKey \in active
        checkDate == IF isTodayDone THEN todayKey ELSE subtractDay(todayKey)
    IN  IF ~isTodayDone /\ checkDate \notin active
        THEN 0
        ELSE CountBack(active, checkDate)

\* no stats computed yet
NoStats == [completedToday |-> 0 - 1, completionRate |-> 0 - 1, streak |-> 0 - 1]

\* the stats memo of StatsBanner
Stats(habits, todayKey) ==
    IF totalHabits(habits) = 0
    THEN [completedToday |-> 0, completionRate |-> 0, streak |-> 0]
    ELSE [completedToday |-> CompletedCount(habits, todayKey),
          completionRate |-> completionRate(CompletedCount(habits, todayKey),
                                            totalHabits(habits)),
          streak |-> streak(habits, todayKey)]

---------------------------------------------------------------------------
(* useLocalStorage *)

\* the key the App's AppData is stored at, the key of another hook instance,
\* and the null key of the event that Storage.clear() sends
HookKey == "habitpulse_data"
OtherKey == "stats_banner_collapsed"
NullKey == "null"

\* the INITIAL_DATA of the older App
INITIAL_DATA_EN ==
    [habits |-> <<>>,
     settings |-> [theme |-> "system", userName |-> "User", language |-> "en",
                   weekStart |-> "sunday"]]

\* what getItem can return: null, a string that JSON.parse rejects (the
\* empty one, which is falsy, or another one), or the JSON text of a value
NullItem == <<"null">>
EmptyItem == <<"text", "">>
BrokenItem == <<"text", "{">>

\* JSON.stringify: the text of v.  An optional field that is undefined is
\* left out of the text and reads as undefined again after JSON.parse, which
\* is the value Undefined stands for, so the text determines v
JSON_stringify(v) == <<"json", v>>

\* JSON.parse throws on this item
Unparsable(item) == item[1] # "json"

\* JSON.parse of an item it accepts
JSON_parse(item) == item[2]

\* localStorage throws on every access (storage blocked for the origin)
Unavailable == <<"unavailable">>

\* readValue without its try/catch
readValue_nocatch(stored, initialValue) ==
    IF stored = Unavailable THEN [threw |-> TRUE, value |-> initialValue]
    ELSE IF stored = NullItem \/ stored = EmptyItem
         THEN [threw |-> FALSE, value |-> initialValue]
         ELSE IF Unparsable(stored)
              THEN [threw |-> TRUE, value |-> initialValue]
              ELSE [threw |-> FALSE, value |-> JSON_parse(stored)]

\* readValue that never looks at the store
readValue_initial(stored, initialValue) == [threw |-> FALSE, value |-> initialValue]

\* readValue over the state of the store: whether it throws, and what it returns
readValue(stored, initialValue) ==
    IF stored = Unavailable THEN [threw |-> FALSE, value |-> initialValue]
    ELSE IF stored = NullItem \/ stored = EmptyItem
         THEN [threw |-> FALSE, value |-> initialValue]
         ELSE IF Unparsable(stored)
              THEN [threw |-> FALSE, value |-> initialValue]
              ELSE [threw |-> FALSE, value |-> JSON_parse(stored)]

\* a StorageEvent
StorageEvent(key, newValue) == [key |-> key, newValue |-> newValue]

\* handleStorageChange: the value the state takes on a storage event
storageChange(event, current, initialValue) ==
    IF event.key = HookKey /\ event.newValue # NullItem
    THEN IF Unparsable(event.newValue) THEN current ELSE JSON_parse(event.newValue)
    ELSE IF event.key = HookKey /\ event.newValue = NullItem
         THEN initialValue
         ELSE current

\* the tabs open on the application
Tabs == {"A", "B"}

\* a useLocalStorage instance: where it is in its life ("created" before its
\* first render, then "rendered", then "mounted" once its effects have run),
\* its state and the initialValue it was given
HookInstance(phase, storedValue, initialValue) ==
    [phase |-> phase, storedValue |-> storedValue, initialValue |-> initialValue]

\* what hookLast records of a step: the tab, the state it found, the value
\* it meant to store, whether the store refused, and the event it handled
HookCall(op, tab, prev, wrote, rejected, event) ==
    [op |-> op, tab |-> tab, prev |-> prev, wrote |-> wrote, rejected |-> rejected,
     event |-> event]

NoHookCall ==
    HookCall("none", "A", INITIAL_DATA, INITIAL_DATA, FALSE,
             StorageEvent(NullKey, NullItem))

\* the function setValue hands to setStoredValue: the state it returns and
\* the item it leaves in the store, when setItem accepts the write or throws
setValueUpdater(current, valueToStore, stored, accepted) ==
    IF accepted /\ stored # Unavailable
    THEN [value |-> valueToStore, stored |-> JSON_stringify(valueToStore)]
    ELSE [value |-> current, stored |-> stored]

---------------------------------------------------------------------------
(* Import *)

\* what JSON.parse can yield for a file: null, or an object whose `habits`
\* and `settings` are absent or hold something
Absent == <<"absent">>
NotArray == <<"string">>
JsonNull == [type |-> "null"]
JsonObject(habits, settings) ==
    [type |-> "object", habits |-> habits, settings |-> settings]

\* parsed && Array.isArray(parsed.habits)
ValidImport(parsed) == parsed.type = "object" /\ parsed.habits[1] = "array"

\* the settings object of an imported file: {} when the file has none
ImportedSettings(newData) ==
    IF newData.settings = Absent THEN [f \in {} |-> ""] ELSE newData.settings[2]

\* { ...INITIAL_DATA.settings, ...newData.settings, splitMonths: ... }: a
\* field of the file wins over the default; splitMonths, which the files of
\* the model hold as a boolean or not at all, falls back the same way
MergedSettings(imported) ==
    [f \in (DOMAIN INITIAL_DATA.settings) \cup (DOMAIN imported) |->
        IF f \in DOMAIN imported THEN imported[f] ELSE INITIAL_DATA.settings[f]]

\* onImport: mergedData
onImport(newData) ==
    [habits |-> newData.habits[2],
     settings |-> MergedSettings(ImportedSettings(newData))]

---------------------------------------------------------------------------
(* Heatmap.  A day is its number of days since Sunday 1 January 2023. *)

\* the days the page can be rendered on: from 29 February 2024
FirstToday == 424
RenderDays == FirstToday..(FirstToday + TodaySpan)

\* the lengths of the months from January 2023 to December 2024
MonthLengths == <<31, 28, 31, 30, 31, 30, 31, 31, 30, 31, 30, 31,
                  31, 29, 31, 30, 31, 30, 31, 31, 30, 31, 30, 31>>

\* the first day of each month, and the day after the last month
MonthStart[m \in 1..(Len(MonthLengths) + 1)] ==
    IF m = 1 THEN 0 ELSE MonthStart[m - 1] + MonthLengths[m - 1]

\* the month (and year) a day falls in
MonthOf(day) ==
    CHOOSE m \in 1..Len(MonthLengths) : MonthStart[m] <= day /\ day < MonthStart[m + 1]

\* isSameMonth of date-fns: same year and same month
isSameMonth(dateLeft, dateRight) == MonthOf(dateLeft) = MonthOf(dateRight)

\* Date.prototype.getDay: 0 is Sunday
getDay(day) == day % 7

\* weekStart === 'monday' ? 1 : 0
weekStartsOn(weekStart) == IF weekStart = "monday" THEN 1 ELSE 0

\* weekIndex that counts from Sunday whatever the week start
weekIndex_sunday(dayOfWeek, startsOn) == dayOfWeek

\* (dayOfWeek < weekStartsOn ? 7 : 0) + dayOfWeek - weekStartsOn
weekIndex(dayOfWeek, startsOn) ==
    (IF dayOfWeek < startsOn THEN 7 ELSE 0) + dayOfWeek - startsOn

\* today.getDate() - 364
WindowDays == 364
startDate(day) == day - WindowDays

\* adjustedStartDate that is the start date itself
adjustedStartDate_unsnapped(from, startsOn) == from

\* (currentDay < weekStartsOn ? 7 : 0) + currentDay - weekStartsOn
diff(currentDay, startsOn) ==
    (IF currentDay < startsOn THEN 7 ELSE 0) + currentDay - startsOn

\* startDate.getDate() - diff
adjustedStartDate(from, startsOn) == from - diff(getDay(from), startsOn)

\* eachDayOfInterval that leaves the end day out
eachDayOfInterval_open(from, to) == [i \in 1..(to - from) |-> from + i - 1]

\* eachDayOfInterval({start, end})
eachDayOfInterval(from, to) == [i \in 1..(to - from + 1) |-> from + i - 1]

\* the days memo
HeatmapWindow(day, weekStart) ==
    eachDayOfInterval(adjustedStartDate(startDate(day), weekStartsOn(weekStart)), day)

\* new Array(7).fill(null)
EmptyWeek == [i \in 1..7 |-> NullDate]

NoWeeks == <<>>

\* isMonthChange that no month brings about
isMonthChange_never(split, lastProcessedDay, day) == FALSE

\* splitMonths && lastProcessedDay && !isSameMonth(lastProcessedDay, day)
isMonthChange(split, lastProcessedDay, day) ==
    split /\ lastProcessedDay # NullDate /\ ~isSameMonth(lastProcessedDay, day)

\* one call of the callback of days.forEach in the newer Heatmap
placeDay(acc, day, startsOn, split) ==
    LET index == weekIndex(getDay(day), startsOn)
        closes == \/ isMonthChange(split, acc.lastProcessedDay, day)
                  \/ (index = 0 /\ acc.lastProcessedDay # NullDate)
        currentWeek == IF closes THEN EmptyWeek ELSE acc.currentWeek
    IN  [weeksArray |-> IF closes THEN Append(acc.weeksArray, acc.currentWeek)
                        ELSE acc.weeksArray,
         currentWeek |-> [currentWeek EXCEPT ![index + 1] = day],
         lastProcessedDay |-> day]

\* days.forEach over days[lo..hi]: the second half starts once the first
\* has placed days[mid]
RECURSIVE forEachPlace(_, _, _, _, _, _)
forEachPlace(acc, days, lo, hi, startsOn, split) ==
    IF lo = hi THEN placeDay(acc, days[lo], startsOn, split)
    ELSE LET mid == (lo + hi) \div 2
             half == forEachPlace(acc, days, lo, mid, startsOn, split)
         IN  CASE half.lastProcessedDay = days[mid] ->
                    forEachPlace(half, days, mid + 1, hi, startsOn, split)

\* the weeks memo of the newer Heatmap
weeksOf(days, startsOn, split) ==
    LET acc == forEachPlace([weeksArray |-> <<>>, currentWeek |-> EmptyWeek,
                             lastProcessedDay |-> NullDate],
                            days, 1, Len(days), startsOn, split)
    IN  IF \E i \in 1..7 : acc.currentWeek[i] # NullDate
        THEN Append(acc.weeksArray, acc.currentWeek)
        ELSE acc.weeksArray

\* one call of the callback of days.forEach in the older Heatmap
pushDay(acc, day) ==
    LET currentWeek == Append(acc.currentWeek, day)
    IN  IF Len(currentWeek) = 7
        THEN [weeksArray |-> Append(acc.weeksArray, currentWeek), currentWeek |-> <<>>]
        ELSE [weeksArray |-> acc.weeksArray, currentWeek |-> currentWeek]

\* days.forEach over days[lo..hi]: the second half starts once the first
\* has pushed days[mid], with fewer than 7 days waiting in currentWeek
RECURSIVE forEachPush(_, _, _, _)
forEachPush(acc, days, lo, hi) ==
    IF lo = hi THEN pushDay(acc, days[lo])
    ELSE LET mid == (lo + hi) \div 2
             half == forEachPush(acc, days, lo, mid)
         IN  CASE Len(half.currentWeek) < 7 ->
                    forEachPush(half, days, mid + 1, hi)

\* the weeks memo of the older Heatmap
chunksOf(days) ==
    LET acc == forEachPush([weeksArray |-> <<>>, currentWeek |-> <<>>], days, 1, Len(days))
    IN  IF Len(acc.currentWeek) > 0
        THEN Append(acc.weeksArray, acc.currentWeek)
        ELSE acc.weeksArray

---------------------------------------------------------------------------
(* WebDAV backup *)

Stamps == 0..MaxStamp
BackupCounts == 0..MaxRetention

\* backupCount || 5
DefaultRetention == 5

\* a basename is its prefix, the instant its timestamp spells and its
\* extension: `habitpulse_backup_${timestamp}.json`
filename(timestamp) == <<"habitpulse_backup_", timestamp, ".json">>

\* an item of getDirectoryContents
Entry(type, basename) == [type |-> type, basename |-> basename]

\* entries of the directory that are no backup files
OtherEntries ==
    {Entry("file", <<"notes_", 0, ".txt">>),
     Entry("file", <<"habitpulse_backup_", 0, ".json.bak">>),
     Entry("directory", <<"habitpulse_backup_", 0, ".json">>)}

\* the filter of performBackup
IsBackup(item) ==
    /\ item.type = "file"
    /\ item.basename[1] = "habitpulse_backup_"
    /\ item.basename[3] = ".json"

BackupsIn(dir) == {item \in dir : IsBackup(item)}

\* sort that puts the oldest name first
RECURSIVE sortOldestFirst(_)
sortOldestFirst(items) ==
    IF items = {} THEN <<>>
    ELSE LET first == CHOOSE a \in items : \A b \in items : a.basename[2] <= b.basename[2]
         IN  <<first>> \o sortOldestFirst(items \ {first})

\* sort((a, b) => b.basename.localeCompare(a.basename)) over names that
\* differ in their timestamp only
RECURSIVE sortNewestFirst(_)
sortNewestFirst(items) ==
    IF items = {} THEN <<>>
    ELSE LET first == CHOOSE a \in items : \A b \in items : b.basename[2] <= a.basename[2]
         IN  <<first>> \o sortNewestFirst(items \ {first})

\* backups.slice(retentionCount), as the set of its items
slice(backups, retentionCount) ==
    {backups[i] : i \in (retentionCount + 1)..Len(backups)}

\* performBackup over a directory: `threw` when putFileContents rejects;
\* listed is whether getDirectoryContents resolves, failing holds the
\* items deleteFile rejects
performBackup(dir, timestamp, retentionCount, putOk, listed, failing) ==
    IF ~putOk THEN [threw |-> TRUE, dir |-> dir]
    ELSE LET uploaded == dir \cup {Entry("file", filename(timestamp))}
             backups == sortNewestFirst(BackupsIn(uploaded))
             toDelete == IF Len(backups) > retentionCount
                         THEN slice(backups, retentionCount) ELSE {}
         IN  [threw |-> FALSE,
              dir |-> IF retentionCount > 0 /\ listed
                      THEN uploaded \ (toDelete \ failing)
                      ELSE uploaded]

\* what syncLast records of a call of handleSyncNow
SyncCall(ran, timestamp, retentionCount, putOk, listed, failing, dir) ==
    [ran |-> ran, timestamp |-> timestamp, retentionCount |-> retentionCount,
     putOk |-> putOk, listed |-> listed, failing |-> failing, before |-> dir]

NoSync == SyncCall(FALSE, 0, 0, FALSE, FALSE, {}, {})

---------------------------------------------------------------------------
(* LongPressButton *)

\* timeoutRef.current === null
NoTimer == 0

\* what pressLast records of an event: the timer it set, cleared or ran, and
\* whether that timer was scheduled before a cancel
PressEvent(op, timer, wasStale) == [op |-> op, timer |-> timer, stale |-> wasStale]

NoPress == PressEvent("none", NoTimer, FALSE)

\* timers of one duration run in the order they were scheduled
Earliest(pending) == CHOOSE t \in pending : \A u \in pending : t <= u

---------------------------------------------------------------------------
(* State *)

VARIABLES
    data,                 \* useLocalStorage('habitpulse_data'): the current AppData
    before,               \* the AppData the last handler was called on
    prior,                \* that same AppData object, read after the handler
    last,                 \* the last handler: its name and arguments
    editingHabit,         \* <<>> or <<habit>>
    habitFormTitle,
    habitFormColor,
    isHabitModalOpen,
    selectedDayHabitId,
    selectedDate,
    calendarSelectedDate,
    logFormNote,
    isLogModalOpen,
    isCalendarModalOpen,
    stats,                \* StatsBanner: the stats memo, NoStats before its render
    store,                \* localStorage: the item at HookKey, or Unavailable
    hook,                 \* per tab: the useLocalStorage instance of its App
    inbox,                \* per tab: the storage events queued for its window
    hookLast,             \* the last step of a useLocalStorage instance
    importStatus,         \* SettingsView: 'idle', 'success' or 'error'
    fileResult,           \* the text the FileReader of the last import read
    heatmapToday,         \* Heatmap: the day its `today` memo holds
    weeks,                \* Heatmap: the weeks memo, NoWeeks before its render
    chunks,               \* the older Heatmap: its weeks memo
    isPressing,           \* LongPressButton: the isPressing state
    timeoutRef,           \* LongPressButton: timeoutRef.current, a timer or NoTimer
    timers,               \* the timers setTimeout has scheduled and that are pending
    nextTimer,            \* the handle the next setTimeout returns
    stale,                \* the pending timers scheduled before the last cancel
    completions,          \* the calls of onComplete so far
    pressLast,            \* the last event of the LongPressButton
    server,               \* the entries of the WebDAV root directory
    webDavStatus,         \* SettingsView: the type of webDavStatus
    syncLast              \* the last call of handleSyncNow

vars == <<data, before, prior, last, editingHabit, habitFormTitle, habitFormColor,
          isHabitModalOpen, selectedDayHabitId, selectedDate, calendarSelectedDate,
          logFormNote, isLogModalOpen, isCalendarModalOpen, stats,
          store, hook, inbox, hookLast, importStatus, fileResult,
          heatmapToday, weeks, chunks,
          isPressing, timeoutRef, timers, nextTimer, stale, completions, pressLast,
          server, webDavStatus, syncLast>>

\* the state of SettingsView
settingsVars == <<importStatus, fileResult>>

\* the tabs that share the store, seen through their useLocalStorage instances
hookVars == <<store, hook, inbox, hookLast>>

\* the state of the App component and of its banner
appVars == <<data, before, prior, last, editingHabit, habitFormTitle, habitFormColor,
             isHabitModalOpen, selectedDayHabitId, selectedDate, calendarSelectedDate,
             logFormNote, isLogModalOpen, isCalendarModalOpen, stats,
             importStatus, fileResult, heatmapToday, weeks, chunks,
             isPressing, timeoutRef, timers, nextTimer, stale, completions, pressLast,
             server, webDavStatus, syncLast>>

\* the state of the components around the App's handlers
gridVars == <<heatmapToday, weeks, chunks>>
pressVars == <<isPressing, timeoutRef, timers, nextTimer, stale, completions, pressLast>>
syncVars == <<server, webDavStatus, syncLast>>
bannerVars == <<stats, gridVars, pressVars, syncVars>>

habitVars == <<editingHabit, habitFormTitle, habitFormColor, isHabitModalOpen>>
logVars == <<selectedDayHabitId, selectedDate, calendarSelectedDate, logFormNote,
             isLogModalOpen, isCalendarModalOpen>>

\* what `last` records of a handler call: the habit id and day it targets, the
\* instant and the note text it read, the calendar selection it found, and
\* whether it got as far as setData
Call(op, habitId, day, now, note, sel) ==
    [op |-> op, habitId |-> habitId, day |-> day, now |-> now, note |-> note,
     sel |-> sel, set |-> FALSE]

NoCall == Call("none", NullId, NullDate, NoTimestamp, Undefined, NullDate)

\* the habit the id names in d (only where HasHabit)
HabitOf(d, id) == d.habits[FindIndex(d.habits, id)]

\* the effect that copies the note of the selected day into the form whenever
\* the modal flag, the habit id, the selected date or data.habits changed
SyncedNote(d, open, habitId, sel, note) ==
    IF open /\ habitId # NullId /\ sel # NullDate /\ HasHabit(d, habitId)
    THEN NoteOrEmpty(HabitOf(d, habitId), sel)
    ELSE note

\* setData(updater): the updater runs on the current state, the store takes
\* the JSON text of what it returns and the state takes that value (here the
\* store accepts the write)
Stored(call, r) ==
    /\ LogCountOf(r.ret.habits) <= MaxLogs
    /\ data' = r.ret
    /\ before' = data
    /\ prior' = r.arg
    /\ last' = [call EXCEPT !.set = TRUE]
    /\ store' = JSON_stringify(r.ret)
    /\ UNCHANGED <<bannerVars, hook, inbox, hookLast>>

\* setData(updater) in a handler of the App component
SetData(call, r) == Stored(call, r) /\ UNCHANGED settingsVars

\* setData(value) over a store that accepts the write or refuses it: the
\* state and the store are what setValueUpdater leaves
Offered(call, valueToStore, accepted) ==
    LET r == setValueUpdater(data, valueToStore, store, accepted)
    IN  /\ LogCountOf(valueToStore.habits) <= MaxLogs
        /\ data' = r.value
        /\ store' = r.stored
        /\ before' = data
        /\ prior' = data
        /\ last' = [call EXCEPT !.set = TRUE]
        /\ UNCHANGED <<bannerVars, hook, inbox, hookLast>>

\* a handler that ends without a call to setData
Kept(call) ==
    /\ data' = data
    /\ before' = data
    /\ prior' = data
    /\ last' = call
    /\ UNCHANGED <<bannerVars, hookVars>>

\* a handler of the App component that returns before it calls setData
NoSetData(call) == Kept(call) /\ UNCHANGED settingsVars

\* a handler that touches only the view state: no call to setData to record
Idle ==
    /\ before' = data
    /\ prior' = data
    /\ last' = NoCall
    /\ UNCHANGED <<bannerVars, hookVars, settingsVars>>

\* no Heatmap has rendered
GridIdle ==
    /\ heatmapToday = NullDate
    /\ weeks = NoWeeks
    /\ chunks = NoWeeks

\* a LongPressButton that no event has reached
PressIdle ==
    /\ isPressing = FALSE
    /\ timeoutRef = NoTimer
    /\ timers = {}
    /\ nextTimer = 1
    /\ stale = {}
    /\ completions = 0
    /\ pressLast = NoPress

\* a WebDAV directory that holds no backup, and no sync so far
SyncIdle ==
    /\ server = OtherEntries
    /\ webDavStatus = "idle"
    /\ syncLast = NoSync

\* the state and the form fields of a fresh App component
AppState(d) ==
    /\ data = d
    /\ before = d
    /\ prior = d
    /\ last = NoCall
    /\ editingHabit = <<>>
    /\ habitFormTitle = ""
    /\ habitFormColor = HABIT_COLORS[1]
    /\ isHabitModalOpen = FALSE
    /\ selectedDayHabitId = NullId
    /\ selectedDate = NullDate
    /\ calendarSelectedDate = Today
    /\ logFormNote = ""
    /\ isLogModalOpen = FALSE
    /\ isCalendarModalOpen = FALSE
    /\ stats = NoStats
    /\ importStatus = "idle"
    /\ fileResult = EmptyItem

\* the state of a fresh App component over an AppData
AppOver(d) == AppState(d) /\ GridIdle /\ PressIdle /\ SyncIdle

\* no tab has rendered its hook yet; stored is the state of the store and
\* initial gives each tab's initialValue
HooksOver(stored, initial) ==
    /\ store = stored
    /\ hook = [t \in Tabs |-> HookInstance("created", initial[t], initial[t])]
    /\ inbox = [t \in Tabs |-> <<>>]
    /\ hookLast = NoHookCall

\* the state of a fresh App over a stored AppData
InitOver(d) ==
    /\ AppOver(d)
    /\ HooksOver(JSON_stringify(d), [t \in Tabs |-> INITIAL_DATA])

\* IsFuture without the comparison
IsFuture_never(date, today) == FALSE

\* dateToCheck > today, both at midnight
IsFuture(date, today) == date > today

\* the ids of the habit cards on the dashboard
Rendered == {data.habits[i].id : i \in 1..Len(data.habits)}

\* the days a heatmap cell exists for: none after today
HeatmapDays == {d \in Days : d <= Today}

\* the calendar modal shows the note field and the CalendarPanel
CalendarShown ==
    isCalendarModalOpen /\ selectedDayHabitId # NullId /\ HasHabit(data, selectedDayHabitId)

\* the open Modal covers the page (fixed inset-0): the cards below it take
\* no click
NoModal == ~isHabitModalOpen /\ ~isLogModalOpen /\ ~isCalendarModalOpen

\* the note effect, run after a handler that changed one of its dependencies
\* (the last conjunct of such a handler)
RunNoteEffect ==
    logFormNote' = SyncedNote(data', isCalendarModalOpen', selectedDayHabitId',
                              calendarSelectedDate', logFormNote)

---------------------------------------------------------------------------
(* Handlers of the log engine *)

toggleToday ==
    \E habitId \in Rendered, nowIso \in Instants :
        /\ SetData(Call("toggleToday", habitId, Today, nowIso, Undefined, NullDate),
                   toggleTodayUpdater(data, habitId, Today, nowIso))
        /\ UNCHANGED <<habitVars, selectedDayHabitId, selectedDate,
                       calendarSelectedDate, isLogModalOpen, isCalendarModalOpen>>
        /\ RunNoteEffect

openLogModal ==
    \E habitId \in Rendered, date \in HeatmapDays :
        /\ NoModal
        /\ HasHabit(data, habitId)
        /\ selectedDayHabitId' = habitId
        /\ selectedDate' = date
        /\ logFormNote' = NoteOrEmpty(HabitOf(data, habitId), date)
        /\ isLogModalOpen' = TRUE
        /\ Idle /\ UNCHANGED <<data, habitVars, calendarSelectedDate,
                       isCalendarModalOpen>>

\* onChange of the note field of either modal
setLogFormNote ==
    \E text \in Notes :
        /\ isLogModalOpen \/ CalendarShown
        /\ text # logFormNote
        /\ logFormNote' = text
        /\ Idle /\ UNCHANGED <<data, habitVars, selectedDayHabitId,
                       selectedDate, calendarSelectedDate, isLogModalOpen,
                       isCalendarModalOpen>>

\* closeLogModal, as the last statements of a handler
CloseLog ==
    /\ isLogModalOpen' = FALSE
    /\ selectedDayHabitId' = NullId
    /\ selectedDate' = NullDate

closeLogModal ==
    /\ isLogModalOpen
    /\ CloseLog
    /\ Idle /\ UNCHANGED <<data, habitVars, calendarSelectedDate,
                   logFormNote, isCalendarModalOpen>>

saveLogDetails ==
    \E nowIso \in Instants :
        /\ isLogModalOpen
        /\ IF selectedDayHabitId = NullId \/ selectedDate = NullDate
           THEN /\ NoSetData(Call("saveLogDetails", selectedDayHabitId, selectedDate,
                                  nowIso, logFormNote, NullDate))
                /\ UNCHANGED <<logVars>>
           ELSE /\ SetData(Call("saveLogDetails", selectedDayHabitId, selectedDate,
                                nowIso, logFormNote, NullDate),
                           saveLogDetailsUpdater(data, selectedDayHabitId, selectedDate,
                                                 logFormNote, nowIso))
                /\ CloseLog
                /\ UNCHANGED <<calendarSelectedDate, isCalendarModalOpen>>
                /\ RunNoteEffect
        /\ UNCHANGED habitVars

\* the delete button exists only while a habit id and a date are selected
deleteLog ==
    /\ isLogModalOpen
    /\ selectedDayHabitId # NullId /\ selectedDate # NullDate
    /\ SetData(Call("deleteLog", selectedDayHabitId, selectedDate, NoTimestamp,
                    Undefined, NullDate),
               deleteLogUpdater(data, selectedDayHabitId, selectedDate))
    /\ CloseLog
    /\ UNCHANGED <<habitVars, calendarSelectedDate, isCalendarModalOpen>>
    /\ RunNoteEffect

openCalendarModal ==
    \E habitId \in Rendered, date \in HeatmapDays :
        /\ NoModal
        /\ selectedDayHabitId' = habitId
        /\ calendarSelectedDate' = date
        /\ IF HasHabit(data, habitId)
           THEN /\ logFormNote' = NoteOrEmpty(HabitOf(data, habitId), date)
                /\ isCalendarModalOpen' = TRUE
           ELSE UNCHANGED <<logFormNote, isCalendarModalOpen>>
        /\ Idle /\ UNCHANGED <<data, habitVars, selectedDate,
                       isLogModalOpen>>

\* saveCalendarLogDetails(note): noteToSave is note, or logFormNote when the
\* argument is left out; both callers end up passing logFormNote
SaveCalendar(op, nowIso) ==
    IF selectedDayHabitId = NullId \/ calendarSelectedDate = NullDate
    THEN NoSetData(Call(op, selectedDayHabitId, calendarSelectedDate, nowIso,
                        logFormNote, NullDate))
    ELSE SetData(Call(op, selectedDayHabitId, calendarSelectedDate, nowIso,
                      logFormNote, NullDate),
                 saveCalendarLogDetailsUpdater(data, selectedDayHabitId,
                                               calendarSelectedDate, logFormNote, nowIso))

\* onBlur of the note field of the calendar modal
saveCalendarLogDetails ==
    \E nowIso \in Instants :
        /\ CalendarShown
        /\ SaveCalendar("saveCalendarLogDetails", nowIso)
        /\ UNCHANGED <<habitVars, selectedDayHabitId, selectedDate,
                       calendarSelectedDate, isLogModalOpen, isCalendarModalOpen>>
        /\ RunNoteEffect

closeCalendarModal ==
    \E nowIso \in Instants :
        /\ isCalendarModalOpen
        /\ isCalendarModalOpen' = FALSE
        /\ SaveCalendar("closeCalendarModal", nowIso)
        /\ UNCHANGED <<habitVars, selectedDayHabitId, selectedDate,
                       calendarSelectedDate, isLogModalOpen>>
        /\ RunNoteEffect

\* single click on a cell of the CalendarPanel
selectDate ==
    \E date \in Days :
        /\ CalendarShown
        /\ NoSetData(Call("selectDate", selectedDayHabitId, date, NoTimestamp,
                          Undefined, calendarSelectedDate))
        /\ calendarSelectedDate' = IF IsFuture(date, Today) THEN calendarSelectedDate ELSE date
        /\ UNCHANGED <<habitVars, selectedDayHabitId, selectedDate, isLogModalOpen,
                       isCalendarModalOpen>>
        /\ RunNoteEffect

\* long press on a cell of the CalendarPanel
toggleDateCompletion ==
    \E date \in Days, nowIso \in Instants :
        /\ CalendarShown
        /\ IF selectedDayHabitId = NullId \/ IsFuture(date, Today)
           THEN /\ NoSetData(Call("toggleDateCompletion", selectedDayHabitId, date,
                                  nowIso, Undefined, calendarSelectedDate))
                /\ UNCHANGED calendarSelectedDate
           ELSE /\ SetData(Call("toggleDateCompletion", selectedDayHabitId, date,
                                nowIso, Undefined, calendarSelectedDate),
                           toggleDateUpdater(data, selectedDayHabitId, date, nowIso,
                                             logFormNote))
                /\ calendarSelectedDate' = date
        /\ UNCHANGED <<habitVars, selectedDayHabitId, selectedDate, isLogModalOpen,
                       isCalendarModalOpen>>
        /\ RunNoteEffect

\* handleStorageChange: another tab stored an AppData; here, the current one
\* with one habit deleted
handleStorageChange ==
    \E i \in 1..Len(data.habits) :
        /\ SetData(Call("storage", NullId, NullDate, NoTimestamp, Undefined, NullDate),
                   [ret |-> [data EXCEPT !.habits =
                                SubSeq(data.habits, 1, i - 1)
                                \o SubSeq(data.habits, i + 1, Len(data.habits))],
                    arg |-> data])
        /\ UNCHANGED <<habitVars, selectedDayHabitId, selectedDate,
                       calendarSelectedDate, isLogModalOpen, isCalendarModalOpen>>
        /\ RunNoteEffect

---------------------------------------------------------------------------
(* Handlers of the habit modal *)

openHabitModal ==
    /\ NoModal
    /\ \/ \E i \in 1..Len(data.habits) :
            /\ editingHabit' = <<data.habits[i]>>
            /\ habitFormTitle' = data.habits[i].title
            /\ habitFormColor' = data.habits[i].color
       \/ /\ editingHabit' = <<>>
          /\ habitFormTitle' = ""
          /\ habitFormColor' = HABIT_COLORS[1]
    /\ isHabitModalOpen' = TRUE
    /\ Idle /\ UNCHANGED <<data, logVars>>

closeHabitModal ==
    /\ isHabitModalOpen
    /\ isHabitModalOpen' = FALSE
    /\ editingHabit' = <<>>
    /\ Idle /\ UNCHANGED <<data, habitFormTitle, habitFormColor, logVars>>

setHabitFormTitle ==
    \E text \in Texts :
        /\ isHabitModalOpen
        /\ text # habitFormTitle
        /\ habitFormTitle' = text
        /\ Idle /\ UNCHANGED <<data, editingHabit, habitFormColor,
                       isHabitModalOpen, logVars>>

setHabitFormColor ==
    \E c \in 1..Len(HABIT_COLORS) :
        /\ isHabitModalOpen
        /\ HABIT_COLORS[c] # habitFormColor
        /\ habitFormColor' = HABIT_COLORS[c]
        /\ Idle /\ UNCHANGED <<data, editingHabit, habitFormTitle,
                       isHabitModalOpen, logVars>>

\* the id of the habit being edited, NullId when creating
EditingId == IF editingHabit = <<>> THEN NullId ELSE editingHabit[1].id

saveHabit ==
    \E newId \in Ids, nowIso \in Instants :
        /\ isHabitModalOpen
        /\ IF trim(habitFormTitle) = ""
           THEN /\ NoSetData(Call("saveHabit", EditingId, NullDate, nowIso,
                                  habitFormTitle, NullDate))
                /\ UNCHANGED <<habitVars, logVars>>
           ELSE /\ SetData(Call("saveHabit", EditingId, NullDate, nowIso,
                                habitFormTitle, NullDate),
                           saveHabitUpdater(data, editingHabit, habitFormTitle,
                                            habitFormColor, newId, nowIso))
                /\ Len(data'.habits) <= MaxHabits
                /\ isHabitModalOpen' = FALSE
                /\ editingHabit' = <<>>
                /\ UNCHANGED <<habitFormTitle, habitFormColor, selectedDayHabitId,
                               selectedDate, calendarSelectedDate, isLogModalOpen,
                               isCalendarModalOpen>>
                /\ RunNoteEffect

\* the delete button exists only while a habit is being edited
deleteHabit ==
    /\ isHabitModalOpen
    /\ editingHabit # <<>>
    /\ SetData(Call("deleteHabit", EditingId, NullDate, NoTimestamp, Undefined,
                    NullDate),
               deleteHabitUpdater(data, EditingId))
    /\ isHabitModalOpen' = FALSE
    /\ editingHabit' = <<>>
    /\ UNCHANGED <<habitFormTitle, habitFormColor, selectedDayHabitId, selectedDate,
                   calendarSelectedDate, isLogModalOpen, isCalendarModalOpen>>
    /\ RunNoteEffect

\* StatsBanner renders: the memo is computed from data.habits and todayKey
StatsBanner ==
    /\ stats = NoStats
    /\ stats' = Stats(data.habits, BannerToday)
    /\ UNCHANGED <<data, before, prior, last, habitVars, logVars, hookVars,
                   settingsVars, gridVars, pressVars, syncVars>>

---------------------------------------------------------------------------
(* SettingsView *)

\* a habit as a backup file can hold it: archived, completed today
StoredHabit ==
    [Habit("k3x", "a", HABIT_COLORS[1], 0)
        EXCEPT !.logs = Put(NoLogs, Today, DailyLog(Today, TRUE, Undefined, 0)),
               !.archived = TRUE]

\* the objects a chosen file can parse to
ImportDocs ==
    {JsonNull}
    \cup {JsonObject(h, st) :
            h \in {Absent, NotArray, <<"array", <<>>>>, <<"array", <<StoredHabit>>>>},
            st \in {Absent, <<"object", INITIAL_DATA_EN.settings>>,
                    <<"object", [language |-> "null"]>>}}

\* the texts the FileReader can hand over
ImportFiles == {EmptyItem, BrokenItem} \cup {JSON_stringify(doc) : doc \in ImportDocs}

\* handleImportFile with fileReader.onload, and the onImport the App passes:
\* setData(mergedData) ends in setItem, which the store accepts or refuses
handleImportFile ==
    \E file \in ImportFiles, accepted \in BOOLEAN :
        LET call == Call("import", NullId, NullDate, NoTimestamp, Undefined, NullDate)
        IN  /\ fileResult' = file
            /\ IF file = EmptyItem
               THEN Kept(call) /\ UNCHANGED importStatus
               ELSE IF Unparsable(file) \/ ~ValidImport(JSON_parse(file))
                    THEN Kept(call) /\ importStatus' = "error"
                    ELSE /\ Offered(call, onImport(JSON_parse(file)), accepted)
                         /\ importStatus' = "success"
            /\ UNCHANGED <<habitVars, selectedDayHabitId, selectedDate,
                           calendarSelectedDate, isLogModalOpen, isCalendarModalOpen>>
            /\ RunNoteEffect

\* setTimeout(() => setImportStatus('idle'), 3000)
importStatusTimeout ==
    /\ importStatus # "idle"
    /\ importStatus' = "idle"
    /\ before' = data
    /\ prior' = data
    /\ last' = NoCall
    /\ UNCHANGED <<data, fileResult, habitVars, logVars, bannerVars, hookVars>>

---------------------------------------------------------------------------
(* Specifications *)

\* the App after two habits were created, before any check-in
TwoHabits ==
    [INITIAL_DATA EXCEPT !.habits =
        <<Habit("k3x", "a", HABIT_COLORS[1], 0), Habit("p0q", "a", HABIT_COLORS[2], 0)>>]

Init == InitOver(TwoHabits)

\* the log engine over a fixed pair of habits
Next ==
    \/ toggleToday
    \/ openLogModal
    \/ setLogFormNote
    \/ closeLogModal
    \/ saveLogDetails
    \/ deleteLog
    \/ openCalendarModal
    \/ saveCalendarLogDetails
    \/ closeCalendarModal
    \/ selectDate
    \/ toggleDateCompletion
    \/ handleStorageChange

Spec == Init /\ [][Next]_vars

InitHabit == InitOver(INITIAL_DATA)

\* the habit collection: create, edit, delete, check in
NextHabit ==
    \/ openHabitModal
    \/ closeHabitModal
    \/ setHabitFormTitle
    \/ setHabitFormColor
    \/ saveHabit
    \/ deleteHabit
    \/ toggleToday
    \/ handleStorageChange

SpecHabit == InitHabit /\ [][NextHabit]_vars

\* the logs of a stored habit: completed entries on the days of c, an
\* unchecked entry kept for its note on the days of noted
BannerLogs(c, noted) ==
    [d \in c \cup noted |->
        DailyLog(d, d \in c, IF d \in c THEN Undefined ELSE "a", 0)]

\* stored habits, archived or not (the flag comes with stored or imported data)
BannerHabits ==
    UNION {{[Habit("k3x", "a", HABIT_COLORS[1], 0)
               EXCEPT !.logs = BannerLogs(c, noted), !.archived = a] :
            noted \in SUBSET ({BannerToday} \ c), a \in BOOLEAN} :
           c \in SUBSET BannerDays}

\* the collections handed to StatsBanner
BannerInputs ==
    UNION {[1..n -> BannerHabits] : n \in 0..MaxHabits}

InitStats ==
    \E habits \in BannerInputs : InitOver([INITIAL_DATA EXCEPT !.habits = habits])

NextStats == StatsBanner

SpecStats == InitStats /\ [][NextStats]_vars

\* the settings view over an App with two habits
NextImport ==
    \/ handleImportFile
    \/ importStatusTimeout
    \/ toggleToday

SpecImport == Init /\ [][NextImport]_vars

\* the props the App gives its Heatmaps:
\* data.settings.weekStart || 'sunday', data.settings.splitMonths ?? false
WeekStartProp == data.settings.weekStart
SplitMonthsProp == data.settings.splitMonths

\* first render of the newer Heatmap
Heatmap ==
    /\ weeks = NoWeeks
    /\ weeks' = weeksOf(HeatmapWindow(heatmapToday, WeekStartProp),
                        weekStartsOn(WeekStartProp), SplitMonthsProp)
    /\ UNCHANGED <<data, before, prior, last, habitVars, logVars, hookVars,
                   settingsVars, stats, heatmapToday, chunks,
                   pressVars, syncVars>>

\* first render of the older Heatmap
HeatmapOlder ==
    /\ chunks = NoWeeks
    /\ chunks' = chunksOf(HeatmapWindow(heatmapToday, WeekStartProp))
    /\ UNCHANGED <<data, before, prior, last, habitVars, logVars, hookVars,
                   settingsVars, stats, heatmapToday, weeks,
                   pressVars, syncVars>>

\* the settings the Heatmaps are rendered under
GridSettings ==
    {[INITIAL_DATA.settings EXCEPT !.weekStart = w, !.splitMonths = m] :
        w \in {"sunday", "monday"}, m \in BOOLEAN}

InitGrid ==
    \E settings \in GridSettings, day \in RenderDays :
        /\ AppState([INITIAL_DATA EXCEPT !.settings = settings])
        /\ HooksOver(JSON_stringify([INITIAL_DATA EXCEPT !.settings = settings]),
                     [t \in Tabs |-> INITIAL_DATA])
        /\ heatmapToday = day
        /\ weeks = NoWeeks
        /\ chunks = NoWeeks
        /\ PressIdle /\ SyncIdle

NextGrid == Heatmap \/ HeatmapOlder

\* what a sync leaves alone
SyncFrame ==
    UNCHANGED <<data, before, prior, last, habitVars, logVars, hookVars,
                settingsVars, stats, gridVars, pressVars>>

\* the Sync Now button: it returns at once when the settings lack a url, a
\* username or a password
handleSyncNow ==
    \/ /\ UNCHANGED <<server, webDavStatus>>
       /\ syncLast' = SyncCall(FALSE, 0, 0, FALSE, FALSE, {}, server)
       /\ SyncFrame
    \/ \E timestamp \in Stamps, backupCount \in BackupCounts,
          putOk \in BOOLEAN, listed \in BOOLEAN :
         \E failing \in SUBSET BackupsIn(server \cup {Entry("file", filename(timestamp))}) :
            LET retentionCount == IF backupCount = 0 THEN DefaultRetention ELSE backupCount
                r == performBackup(server, timestamp, retentionCount, putOk, listed, failing)
            IN  /\ server' = r.dir
                /\ webDavStatus' = IF r.threw THEN "error" ELSE "success"
                /\ syncLast' = SyncCall(TRUE, timestamp, retentionCount, putOk,
                                        listed, failing, server)
                /\ SyncFrame

\* setTimeout(() => setWebDavStatus({ type: 'idle', msg: '' }), 3000)
webDavStatusTimeout ==
    /\ webDavStatus # "idle"
    /\ webDavStatus' = "idle"
    /\ UNCHANGED <<server, syncLast>>
    /\ SyncFrame

NextSync == handleSyncNow \/ webDavStatusTimeout

SpecSync == Init /\ [][NextSync]_vars

\* what the events of a LongPressButton leave alone
PressFrame ==
    UNCHANGED <<data, before, prior, last, habitVars, logVars, hookVars,
                settingsVars, stats, gridVars, syncVars>>

\* onMouseDown, onTouchStart
start ==
    /\ nextTimer <= MaxTimers
    /\ isPressing' = TRUE
    /\ timers' = timers \cup {nextTimer}
    /\ timeoutRef' = nextTimer
    /\ nextTimer' = nextTimer + 1
    /\ pressLast' = PressEvent("start", nextTimer, FALSE)
    /\ UNCHANGED <<stale, completions>>
    /\ PressFrame

\* onMouseUp, onMouseLeave, onTouchEnd, onTouchCancel
cancel ==
    /\ isPressing' = FALSE
    /\ timers' = IF timeoutRef # NoTimer THEN timers \ {timeoutRef} ELSE timers
    /\ timeoutRef' = NoTimer
    /\ stale' = timers'
    /\ pressLast' = PressEvent("cancel", timeoutRef, FALSE)
    /\ UNCHANGED <<nextTimer, completions>>
    /\ PressFrame

\* the callback given to setTimeout, once its duration has passed
onTimeout ==
    /\ timers # {}
    /\ LET timer == Earliest(timers)
       IN  /\ timers' = timers \ {timer}
           /\ stale' = stale \ {timer}
           /\ pressLast' = PressEvent("timeout", timer, timer \in stale)
    /\ completions' = completions + 1
    /\ isPressing' = FALSE
    /\ UNCHANGED <<timeoutRef, nextTimer>>
    /\ PressFrame

NextPress == start \/ cancel \/ onTimeout

SpecPress == Init /\ [][NextPress]_vars

SpecGrid == InitGrid /\ [][NextGrid]_vars

\* The updaters over the days of the year view.  What a handler reads of the
\* component (the selected habit and day, the text of the form) is an input
\* here, and the modals are left as they are.

\* the days of the year view the cells are pressed on
LogDays == {BannerToday - 1, BannerToday}

toggleTodayAt ==
    \E habitId \in Rendered, nowIso \in Instants :
        /\ SetData(Call("toggleToday", habitId, BannerToday, nowIso, Undefined, NullDate),
                   toggleTodayUpdater(data, habitId, BannerToday, nowIso))
        /\ UNCHANGED <<habitVars, logVars>>

toggleDateCompletionAt ==
    \E habitId \in Rendered, date \in LogDays, nowIso \in Instants, text \in Notes :
        /\ ~IsFuture(date, BannerToday)
        /\ SetData(Call("toggleDateCompletion", habitId, date, nowIso, text, NullDate),
                   toggleDateUpdater(data, habitId, date, nowIso, text))
        /\ UNCHANGED <<habitVars, logVars>>

saveLogDetailsAt ==
    \E habitId \in Rendered, date \in LogDays, nowIso \in Instants, text \in Notes :
        /\ SetData(Call("saveLogDetails", habitId, date, nowIso, text, NullDate),
                   saveLogDetailsUpdater(data, habitId, date, text, nowIso))
        /\ UNCHANGED <<habitVars, logVars>>

saveCalendarLogDetailsAt ==
    \E habitId \in Rendered, date \in LogDays, nowIso \in Instants, text \in Notes :
        /\ SetData(Call("saveCalendarLogDetails", habitId, date, nowIso, text, NullDate),
                   saveCalendarLogDetailsUpdater(data, habitId, date, text, nowIso))
        /\ UNCHANGED <<habitVars, logVars>>

deleteLogAt ==
    \E habitId \in Rendered, date \in LogDays :
        /\ SetData(Call("deleteLog", habitId, date, NoTimestamp, Undefined, NullDate),
                   deleteLogUpdater(data, habitId, date))
        /\ UNCHANGED <<habitVars, logVars>>

\* any sequence of toggles, saved notes and deleted entries, from empty logs
NextLogs ==
    \/ toggleTodayAt
    \/ toggleDateCompletionAt
    \/ saveLogDetailsAt
    \/ saveCalendarLogDetailsAt
    \/ deleteLogAt

\* one habit without logs
OneHabit == [INITIAL_DATA EXCEPT !.habits = <<Habit("k3x", "a", HABIT_COLORS[1], 0)>>]

InitLogs == InitOver(OneHabit)

SpecLogs == InitLogs /\ [][NextLogs]_vars

---------------------------------------------------------------------------
(* The tabs and the store *)

\* the tabs whose storage listener is registered, other than t
Listening(t) == {u \in Tabs \ {t} : hook[u].phase = "mounted"}

\* the store changed in one context: the event is queued for the others
Notify(from, event) ==
    /\ \A u \in Listening(from) : Len(inbox[u]) < MaxPending
    /\ inbox' = [u \in Tabs |->
                   IF u \in Listening(from) THEN Append(inbox[u], event) ELSE inbox[u]]

\* first render: useState(readValue)
render(t) ==
    /\ hook[t].phase = "created"
    /\ hook' = [hook EXCEPT
                  ![t].phase = "rendered",
                  ![t].storedValue = readValue(store, hook[t].initialValue).value]
    /\ hookLast' = HookCall("render", t, hook[t].storedValue, hook[t].storedValue,
                            FALSE, StorageEvent(NullKey, NullItem))
    /\ UNCHANGED <<store, inbox, appVars>>

\* the effects after the first render: the storage listener is registered
\* and the value is read again
mount(t) ==
    /\ hook[t].phase = "rendered"
    /\ hook' = [hook EXCEPT
                  ![t].phase = "mounted",
                  ![t].storedValue = readValue(store, hook[t].initialValue).value]
    /\ hookLast' = HookCall("mount", t, hook[t].storedValue, hook[t].storedValue,
                            FALSE, StorageEvent(NullKey, NullItem))
    /\ UNCHANGED <<store, inbox, appVars>>

\* what a handler of the App passes to setData: here the updater of
\* saveHabit for a new habit
Updates(current) ==
    {saveHabitUpdater(current, <<>>, "a", HABIT_COLORS[1], id, 0).ret : id \in Ids}

\* setValue(updater) in tab t; the store accepts the write or throws
setValue(t) ==
    \E valueToStore \in Updates(hook[t].storedValue), accepted \in BOOLEAN :
        LET r == setValueUpdater(hook[t].storedValue, valueToStore, store, accepted)
        IN  /\ hook[t].phase = "mounted"
            /\ Len(valueToStore.habits) <= MaxHabits
            /\ hook' = [hook EXCEPT ![t].storedValue = r.value]
            /\ store' = r.stored
            /\ IF r.stored # store
               THEN Notify(t, StorageEvent(HookKey, r.stored))
               ELSE UNCHANGED inbox
            /\ hookLast' = HookCall("setValue", t, hook[t].storedValue, valueToStore,
                                    ~accepted \/ store = Unavailable,
                                    StorageEvent(NullKey, NullItem))
            /\ UNCHANGED appVars

\* the window of tab t dispatches its next storage event to handleStorageChange
deliver(t) ==
    /\ inbox[t] # <<>>
    /\ hook' = [hook EXCEPT
                  ![t].storedValue = storageChange(Head(inbox[t]), hook[t].storedValue,
                                                   hook[t].initialValue)]
    /\ inbox' = [inbox EXCEPT ![t] = Tail(inbox[t])]
    /\ hookLast' = HookCall("storage", t, hook[t].storedValue, hook[t].storedValue,
                            FALSE, Head(inbox[t]))
    /\ UNCHANGED <<store, appVars>>

\* a step of another context of the origin, which is no hook instance
Elsewhere(op, stored, event) ==
    /\ store # Unavailable
    /\ store' = stored
    /\ \A u \in Tabs : hook[u].phase = "mounted" => Len(inbox[u]) < MaxPending
    /\ inbox' = [u \in Tabs |->
                   IF hook[u].phase = "mounted" THEN Append(inbox[u], event)
                   ELSE inbox[u]]
    /\ hookLast' = HookCall(op, "A", INITIAL_DATA, INITIAL_DATA, FALSE, event)
    /\ UNCHANGED <<hook, appVars>>

\* localStorage.removeItem(HookKey) elsewhere
removeItem ==
    /\ store # NullItem
    /\ Elsewhere("removeItem", NullItem, StorageEvent(HookKey, NullItem))

\* localStorage.clear() elsewhere: the event carries no key
clear ==
    /\ store # NullItem
    /\ Elsewhere("clear", NullItem, StorageEvent(NullKey, NullItem))

\* localStorage.setItem(HookKey, text) elsewhere, with a text that is no JSON
setItemText ==
    \E text \in {EmptyItem, BrokenItem} :
        /\ store # text
        /\ Elsewhere("setItem", text, StorageEvent(HookKey, text))

\* localStorage.setItem(OtherKey, ...) elsewhere: the item at HookKey stays
setItemOther ==
    Elsewhere("setItemOther", store,
              StorageEvent(OtherKey, JSON_stringify(INITIAL_DATA_EN)))

\* the initialValue of each tab: one runs the older App
InitialOf == [t \in Tabs |-> IF t = "A" THEN INITIAL_DATA ELSE INITIAL_DATA_EN]

\* what the store can hold when the first tab opens
StoredAtStart ==
    {Unavailable, NullItem, BrokenItem, JSON_stringify(TwoHabits)}

InitStore ==
    /\ AppOver(INITIAL_DATA)
    /\ \E stored \in StoredAtStart : HooksOver(stored, InitialOf)

NextStore ==
    \/ \E t \in Tabs : render(t)
    \/ \E t \in Tabs : mount(t)
    \/ \E t \in Tabs : setValue(t)
    \/ \E t \in Tabs : deliver(t)
    \/ removeItem
    \/ clear
    \/ setItemText
    \/ setItemOther

SpecStore == InitStore /\ [][NextStore]_vars

\* the two tabs alone: nothing else touches the store
NextTabs ==
    \/ \E t \in Tabs : render(t)
    \/ \E t \in Tabs : mount(t)
    \/ \E t \in Tabs : setValue(t)
    \/ \E t \in Tabs : deliver(t)

SpecTabs == InitStore /\ [][NextTabs]_vars

---------------------------------------------------------------------------
(* Properties of the log engine *)

IsToggle(call) == call.op \in {"toggleToday", "toggleDateCompletion"}

\* the positions of the habits the last handler targeted, in the AppData it
\* was called on
Targets == {i \in 1..Len(before.habits) : before.habits[i].id = last.habitId}

\* the last handler ran its updater on a habit of the AppData
Acted == last.set /\ Targets # {} /\ Len(data.habits) = Len(before.habits)

\* a note that is empty or absent
NoNote(log) == log.note = Undefined \/ log.note = ""

\* C1: no log entry of any habit has completed = false and an empty or
\* absent note
C1_NoEmptyEntry ==
    \A i \in 1..Len(data.habits) : \A d \in DOMAIN data.habits[i].logs :
        ~(~data.habits[i].logs[d].completed /\ NoNote(data.habits[i].logs[d]))

\* an un-check has left an uncompleted entry behind, and one has removed an entry
C1_Witness ==
    /\ IsToggle(last) /\ Acted
    /\ \E i \in Targets :
        /\ IsCompleted(before.habits[i], last.day)
        /\ HasLog(data.habits[i], last.day)
        /\ ~data.habits[i].logs[last.day].completed

\* C2: the AppData a handler was called on reads the same after the handler
\* as before it
C2_PriorUntouched == prior = before

\* C3: on the path entry absent -> present -> absent, two toggles in a row
\* of the same habit and day leave the habit's logs as they were before the
\* first; stated for the step that is the second toggle
C3_ToggleTwice ==
    [][(/\ IsToggle(last) /\ IsToggle(last')
        /\ last'.op = last.op
        /\ last'.habitId = last.habitId /\ last'.day = last.day
        /\ before' = data /\ data' # data
        /\ Len(before.habits) = Len(data'.habits)
        /\ \A i \in 1..Len(before.habits) :
              before.habits[i].id = last.habitId => ~HasLog(before.habits[i], last.day))
       => \A i \in 1..Len(before.habits) :
              before.habits[i].id = last.habitId
              => data'.habits[i].logs = before.habits[i].logs]_vars

\* C4: a toggle of an entry that is absent or not completed leaves the entry
\* completed, dated day, stamped now, with the note it had (none if it had none)
C4_ToggleOn ==
    (IsToggle(last) /\ Acted)
    => \A i \in Targets :
          ~IsCompleted(before.habits[i], last.day)
          => /\ HasLog(data.habits[i], last.day)
             /\ data.habits[i].logs[last.day] =
                    DailyLog(last.day, TRUE,
                             IF HasLog(before.habits[i], last.day)
                             THEN before.habits[i].logs[last.day].note
                             ELSE Undefined,
                             last.now)

\* C5: a toggle of a completed entry keeps it, uncompleted and with its
\* note, when the note is non-empty, and completedToday no longer counts it;
\* it removes the entry when the note is empty or absent
C5_ToggleOff ==
    (IsToggle(last) /\ Acted)
    => /\ \A i \in Targets :
            IsCompleted(before.habits[i], last.day)
            => IF ~NoNote(before.habits[i].logs[last.day])
               THEN /\ HasLog(data.habits[i], last.day)
                    /\ data.habits[i].logs[last.day] =
                         [before.habits[i].logs[last.day] EXCEPT !.completed = FALSE]
               ELSE ~HasLog(data.habits[i], last.day)
       /\ completedToday(data.habits, last.day) =
            completedToday(before.habits, last.day)
            - Cardinality({i \in Targets : IsCompleted(before.habits[i], last.day)})
            + Cardinality({i \in Targets : ~IsCompleted(before.habits[i], last.day)})

\* an un-check of today's entry with a note has happened
C5_Witness ==
    /\ IsToggle(last) /\ Acted /\ last.day = Today
    /\ \E i \in Targets :
        /\ IsCompleted(before.habits[i], last.day)
        /\ ~NoNote(before.habits[i].logs[last.day])
        /\ completedToday(before.habits, Today) = 1
        /\ completedToday(data.habits, Today) = 0

\* C6: toggleDateCompletion and selectDate on a day after today change
\* neither the AppData nor the selected date, the selected date is never
\* after today, and no log entry is keyed or dated after today
C6_NoFuture ==
    /\ (last.op \in {"toggleDateCompletion", "selectDate"} /\ last.day > Today)
       => (data = before /\ calendarSelectedDate = last.sel)
    /\ calendarSelectedDate <= Today
    /\ \A i \in 1..Len(data.habits) : \A d \in DOMAIN data.habits[i].logs :
          d <= Today /\ data.habits[i].logs[d].date <= Today

\* a long press on a day after today has been handled, with entries logged
C6_Witness ==
    /\ last.op = "toggleDateCompletion" /\ last.day > Today
    /\ LogCountOf(data.habits) > 0

\* the handlers that change the AppData of one habit
Mutations ==
    {"toggleToday", "toggleDateCompletion", "saveLogDetails", "saveCalendarLogDetails",
     "closeCalendarModal", "deleteLog", "saveHabit", "deleteHabit"}

\* C7: called with a habit id that no habit of the AppData has, every
\* mutation returns an AppData equal to the one it was given
C7_UnknownHabit ==
    /\ (last.op \in Mutations /\ last.habitId # NullId /\ Targets = {})
       => data = before
    /\ \A id \in Ids : ~HasHabit(data, id) =>
         \A day \in Days, nowIso \in Instants, text \in Notes :
            /\ toggleTodayUpdater(data, id, day, nowIso).ret = data
            /\ toggleDateUpdater(data, id, day, nowIso, text).ret = data
            /\ saveLogDetailsUpdater(data, id, day, text, nowIso).ret = data
            /\ saveCalendarLogDetailsUpdater(data, id, day, text, nowIso).ret = data
            /\ deleteLogUpdater(data, id, day).ret = data
            /\ deleteHabitUpdater(data, id).ret = data
            /\ \A c \in 1..Len(HABIT_COLORS) :
                 saveHabitUpdater(data, <<Habit(id, "a", HABIT_COLORS[1], 0)>>, text,
                                  HABIT_COLORS[c], id, nowIso).ret = data

\* a log handler has run its updater for a habit that another tab deleted
C7_Witness ==
    /\ last.op \in {"saveLogDetails", "deleteLog", "closeCalendarModal"}
    /\ last.set /\ last.habitId # NullId /\ Targets = {}
    /\ Len(before.habits) > 0

---------------------------------------------------------------------------
(* Properties of the habit collection *)

\* C9: the ids of the habits of the collection are pairwise distinct
C9_DistinctIds ==
    \A i, j \in 1..Len(data.habits) :
        i # j => data.habits[i].id # data.habits[j].id

\* a text that is empty once trimmed
Blank(s) == s = "" \/ s = " "

\* C10: every habit has a title that is not empty once trimmed, and
\* saveHabit with a title that is empty once trimmed leaves the AppData as
\* it was
C10_Titles ==
    /\ \A i \in 1..Len(data.habits) : ~Blank(data.habits[i].title)
    /\ (last.op = "saveHabit" /\ Blank(last.note)) => data = before

\* saveHabit has been refused a blank title while a habit exists
C10_Witness ==
    /\ last.op = "saveHabit" /\ last.note = " "
    /\ Len(data.habits) > 0

\* saveHabit has run its updater on the update branch
Updated == last.op = "saveHabit" /\ last.set /\ last.habitId # NullId

\* positions of the collection the last updater changed
Changed == {i \in 1..Len(before.habits) : data.habits[i] # before.habits[i]}

\* C11: updating a habit keeps the settings, the length and the order of the
\* collection, and the id, logs, createdAt and archived flag of every habit
\* as they are in the current state, and changes no habit other than the
\* one that was opened for editing
C11_UpdateFrame ==
    Updated =>
        /\ data.settings = before.settings
        /\ Len(data.habits) = Len(before.habits)
        /\ \A i \in 1..Len(before.habits) :
             [data.habits[i] EXCEPT !.title = "", !.color = ""]
               = [before.habits[i] EXCEPT !.title = "", !.color = ""]
        /\ Cardinality(Changed) <= 1

\* the collection without its archived habits
RECURSIVE NonArchived(_)
NonArchived(habits) ==
    IF habits = <<>> THEN <<>>
    ELSE IF Head(habits).archived THEN NonArchived(Tail(habits))
         ELSE <<Head(habits)>> \o NonArchived(Tail(habits))

\* the banner has computed its stats
Computed == stats # NoStats

\* C12: the completion rate is an integer from 0 to 100, and without a
\* non-archived habit the three outputs are 0
C12_RateRange ==
    Computed =>
        /\ stats.completionRate \in 0..100
        /\ NonArchived(data.habits) = <<>> =>
             stats = [completedToday |-> 0, completionRate |-> 0, streak |-> 0]

\* C13: the outputs are those computed over the non-archived habits alone
C13_ArchivedIgnored ==
    Computed => stats = Stats(NonArchived(data.habits), BannerToday)

\* S: the days on which at least one habit has a completed entry
ActiveDays(habits) ==
    {d \in BannerDays : \E i \in 1..Len(habits) : IsCompleted(habits[i], d)}

\* the length of the maximal run of consecutive days of S that ends at d
RunEnding(S, d) ==
    CHOOSE n \in 0..Cardinality(S) :
        /\ \A k \in 0..(n - 1) : (d - k) \in S
        /\ (d - n) \notin S

\* the run that ends at today when today is in S, at yesterday otherwise
GraceRun(S, today) ==
    IF today \in S THEN RunEnding(S, today) ELSE RunEnding(S, today - 1)

\* C14 as stated: the streak is the run of S ending at today or, failing
\* that, at yesterday, and is 0 exactly when neither day is in S
C14_Streak ==
    Computed =>
        LET S == ActiveDays(data.habits)
        IN  /\ stats.streak = GraceRun(S, BannerToday)
            /\ stats.streak = 0 <=>
                 (BannerToday \notin S /\ (BannerToday - 1) \notin S)

\* C14, amended: that holds when the collection has a non-archived habit;
\* when it has none the streak is 0 whatever S holds
C14_StreakOfTracked ==
    Computed =>
        LET S == ActiveDays(data.habits)
        IN  IF NonArchived(data.habits) = <<>>
            THEN stats.streak = 0
            ELSE /\ stats.streak = GraceRun(S, BannerToday)
                 /\ stats.streak = 0 <=>
                      (BannerToday \notin S /\ (BannerToday - 1) \notin S)

\* the streak of a collection that was active on the two days before today
\* and not today
C14_Witness ==
    /\ Computed
    /\ NonArchived(data.habits) # <<>>
    /\ ActiveDays(data.habits) = {BannerToday - 2, BannerToday - 1}
    /\ stats.streak = 2

\* the store holds a text at HookKey that JSON.parse accepts
Readable(stored) == ~Unparsable(stored)

\* C15: after a setValue that the store refused, the state of the instance
\* is the value it meant to store
C15_RejectedWrite ==
    (hookLast.op = "setValue" /\ hookLast.rejected)
        => hook[hookLast.tab].storedValue = hookLast.wrote

\* C16: a read (at the first render and in the mount effect) does not
\* throw, yields the parsed item when there is one that parses and the
\* initialValue otherwise, and leaves the store as it is
C16_Read ==
    [][hookLast'.op \in {"render", "mount"} =>
        LET t == hookLast'.tab
            r == readValue(store, hook[t].initialValue)
        IN  /\ ~r.threw
            /\ r.value = IF Readable(store) THEN JSON_parse(store)
                         ELSE hook[t].initialValue
            /\ hook'[t].storedValue = r.value
            /\ store' = store]_vars

\* a tab has read a store that holds a text JSON.parse rejects
C16_Witness ==
    /\ hookLast.op \in {"render", "mount"}
    /\ store = BrokenItem
    /\ hook[hookLast.tab].storedValue = hook[hookLast.tab].initialValue

\* C17: on a storage event the state becomes the parsed new value of the
\* key; it becomes the initialValue when the key was deleted; it stays when
\* another key changed
C17_StorageEvent ==
    hookLast.op = "storage" =>
        LET e == hookLast.event
            t == hookLast.tab
        IN  /\ (e.key = HookKey /\ Readable(e.newValue))
                 => hook[t].storedValue = JSON_parse(e.newValue)
            /\ (e.key \in {HookKey, NullKey} /\ e.newValue = NullItem)
                 => hook[t].storedValue = hook[t].initialValue
            /\ e.key = OtherKey => hook[t].storedValue = hookLast.prev

\* every tab is mounted and has no storage event left to handle
Quiet == \A t \in Tabs : hook[t].phase = "mounted" /\ inbox[t] = <<>>

\* C18: once every storage event has been handled, every tab holds the
\* value that is in the store
C18_Converged ==
    (Quiet /\ Readable(store))
        => \A t \in Tabs : hook[t].storedValue = JSON_parse(store)

\* C19: when the mount effect has run, the state is the parsed item of the
\* store when there is one that parses, and the effect has not written the
\* store
C19_MountReread ==
    [][hookLast'.op = "mount" =>
        /\ store' = store
        /\ Readable(store')
             => hook'[hookLast'.tab].storedValue = JSON_parse(store')]_vars

\* the mount effect of the tab of the older App has replaced the value of
\* the first render by the one another tab stored in between
C19_Witness ==
    /\ hookLast.op = "mount" /\ hookLast.tab = "B"
    /\ Readable(store)
    /\ hook["B"].storedValue = JSON_parse(store)
    /\ hookLast.prev # hook["B"].storedValue

\* the text of a file that the import has to refuse
Refused(file) == Unparsable(file) \/ ~ValidImport(JSON_parse(file))

\* C20: an import of a file that does not parse, or whose habits are absent
\* or no sequence, leaves the AppData in memory and in the store as they
\* were, does not call onImport, and sets the import status to error
C20_ImportRejected ==
    [][(last'.op = "import" /\ Refused(fileResult')) =>
        /\ ~last'.set
        /\ data' = data
        /\ store' = store
        /\ importStatus' = "error"]_vars

\* an import has called onImport
Imported == last.op = "import" /\ last.set

\* C21: after an import of a file that parses and whose habits are a
\* sequence, the habits in memory are those of the file, every settings
\* field of the defaults is there, with the value of the file where the file
\* has it and the default otherwise, and the store holds that AppData
C21_ImportReplaces ==
    Imported =>
        LET newData == JSON_parse(fileResult)
            imported == ImportedSettings(newData)
        IN  /\ data.habits = newData.habits[2]
            /\ \A f \in DOMAIN INITIAL_DATA.settings :
                 /\ f \in DOMAIN data.settings
                 /\ data.settings[f] = IF f \in DOMAIN imported THEN imported[f]
                                       ELSE INITIAL_DATA.settings[f]
            /\ store = JSON_stringify(data)

CalendarSaved ==
    last.op \in {"saveCalendarLogDetails", "closeCalendarModal"} /\ Acted

\* C23: saveCalendarLogDetails with a note that is empty once trimmed, on a
\* day whose entry is absent or not completed, returns the AppData it was
\* given; with a note that is not empty once trimmed it leaves an entry on
\* that day with the trimmed note and completed = true
C23_SaveCalendar ==
    CalendarSaved =>
        IF trim(last.note) = ""
        THEN (\A i \in Targets : ~IsCompleted(before.habits[i], last.day))
                => data = before
        ELSE \A i \in Targets :
                /\ HasLog(data.habits[i], last.day)
                /\ data.habits[i].logs[last.day].note = trim(last.note)
                /\ data.habits[i].logs[last.day].completed

\* the calendar modal has saved a padded note on a day without an entry
C23_Witness ==
    /\ CalendarSaved
    /\ trim(last.note) # last.note /\ trim(last.note) # ""
    /\ \E i \in Targets : ~HasLog(before.habits[i], last.day)

\* the calendar modal has been given a blank note on a day without an entry
C23_WitnessBlank ==
    /\ CalendarSaved
    /\ last.note = " "
    /\ \E i \in Targets : ~HasLog(before.habits[i], last.day)

\* C30: every log entry of every habit carries, as its date, the key it is
\* stored under, so the days the streak collects (log.date of the completed
\* entries) are the keys of the completed entries
C30_DateIsKey ==
    /\ \A i \in 1..Len(data.habits) : \A d \in DOMAIN data.habits[i].logs :
         data.habits[i].logs[d].date = d
    /\ activityMap(data.habits) =
         {d \in BannerDays : \E i \in 1..Len(data.habits) : IsCompleted(data.habits[i], d)}

\* a habit holds entries under two keys, the last one written by a save of
\* a note on a day that had none
C30_Witness ==
    /\ (last.op = "saveLogDetails" \/ CalendarSaved) /\ Acted
    /\ \E i \in Targets :
         /\ ~HasLog(before.habits[i], last.day)
         /\ HasLog(data.habits[i], last.day)
         /\ Cardinality(DOMAIN data.habits[i].logs) = 2

---------------------------------------------------------------------------
(* Properties of the Heatmap *)

\* the days a row holds, in the order of its cells
RowDays(row) ==
    LET held == {i \in 1..Len(row) : row[i] # NullDate}
    IN  [k \in 1..Cardinality(held) |->
            row[CHOOSE i \in held : Cardinality({j \in held : j < i}) = k - 1]]

\* the days of rows i.. in the order of the rows
RECURSIVE DaysFrom(_, _)
DaysFrom(rows, i) ==
    IF i > Len(rows) THEN <<>> ELSE RowDays(rows[i]) \o DaysFrom(rows, i + 1)

\* the number of the configured first day of the week
FirstWeekday == IF WeekStartProp = "monday" THEN 1 ELSE 0

\* the latest day not after today - 364 that is a first day of the week
SnappedStart ==
    CHOOSE d \in (heatmapToday - 370)..(heatmapToday - 364) : d % 7 = FirstWeekday

\* the days from the snapped start to today, in calendar order
Consecutive == [k \in 1..(heatmapToday - SnappedStart + 1) |-> SnappedStart + k - 1]

\* rows of 7 days, the last one of 1 to 7
SevenEach(rows) ==
    /\ \A r \in 1..(Len(rows) - 1) : Len(RowDays(rows[r])) = 7
    /\ Len(RowDays(rows[Len(rows)])) \in 1..7

BothRendered == weeks # NoWeeks /\ chunks # NoWeeks

\* C24: the window starts on the latest first day of the week not after
\* today - 364 and ends today; the rows of either Heatmap hold every day of
\* it once, in calendar order; without month split they are rows of 7
\* days, the last one possibly shorter
C24_Window ==
    /\ chunks # NoWeeks =>
        /\ DaysFrom(chunks, 1) = Consecutive
        /\ SevenEach(chunks)
    /\ weeks # NoWeeks =>
        /\ DaysFrom(weeks, 1) = Consecutive
        /\ ~SplitMonthsProp => SevenEach(weeks)

\* both Heatmaps are rendered for a week that starts on Monday, without
\* month split, on a day that leaves the last row short, from a start
\* that had to be snapped back
C24_Witness ==
    /\ BothRendered
    /\ WeekStartProp = "monday" /\ ~SplitMonthsProp
    /\ Len(RowDays(weeks[Len(weeks)])) < 7
    /\ SnappedStart < heatmapToday - 364

\* C25 as stated: the number of days from the snapped start to today is a
\* multiple of 7 and no row of the heatmap without month split is partial
C25_WholeWeeks ==
    chunks # NoWeeks =>
        /\ Len(DaysFrom(chunks, 1)) % 7 = 0
        /\ \A r \in 1..Len(chunks) : Len(chunks[r]) = 7

\* the place of today in its week, counted from the configured first day
TodayIndex == (heatmapToday - FirstWeekday) % 7

\* C25 amended: the window holds 365 days plus the 0 to 6 days the start
\* was snapped back by; the last row holds the days of the current week up
\* to today, so the number of days is a multiple of 7 exactly when today is
\* the last day of the configured week
C25_LastRow ==
    chunks # NoWeeks =>
        /\ Len(DaysFrom(chunks, 1)) = 365 + ((heatmapToday - 364) - SnappedStart)
        /\ Len(chunks[Len(chunks)]) = TodayIndex + 1
        /\ \A r \in 1..(Len(chunks) - 1) : Len(chunks[r]) = 7
        /\ (Len(DaysFrom(chunks, 1)) % 7 = 0) <=> (TodayIndex = 6)

\* the older Heatmap is rendered on a day that is not the last of its week
C25_Witness ==
    /\ chunks # NoWeeks
    /\ TodayIndex < 6
    /\ Len(chunks[Len(chunks)]) < 7

\* the first day of the week a day falls in
WeekOf(day) == day - ((day - FirstWeekday) % 7)

\* C26: with month split every row has 7 cells; the days of a row fall in
\* one month and one week; each day sits at its weekday index counted from
\* the week start; every day of the window is in exactly one cell and the
\* other cells are empty
C26_SplitRows ==
    (weeks # NoWeeks /\ SplitMonthsProp) =>
        /\ \A r \in 1..Len(weeks) :
            /\ Len(weeks[r]) = 7
            /\ \A i \in 1..7 : weeks[r][i] # NullDate =>
                 /\ i - 1 = (weeks[r][i] - FirstWeekday) % 7
                 /\ \A j \in 1..7 : weeks[r][j] # NullDate =>
                      /\ MonthOf(weeks[r][i]) = MonthOf(weeks[r][j])
                      /\ WeekOf(weeks[r][i]) = WeekOf(weeks[r][j])
        /\ DaysFrom(weeks, 1) = Consecutive
        /\ \A r \in 1..(Len(weeks) - 1) :
             LET last_ == RowDays(weeks[r])[Len(RowDays(weeks[r]))]
                 next_ == RowDays(weeks[r + 1])[1]
             IN  MonthOf(last_) # MonthOf(next_) \/ (next_ - FirstWeekday) % 7 = 0

\* a month has ended in the middle of a week: one row ends with empty
\* cells and the next one starts with empty cells
C26_Witness ==
    /\ weeks # NoWeeks /\ SplitMonthsProp
    /\ \E r \in 1..(Len(weeks) - 1) :
        /\ weeks[r][7] = NullDate
        /\ weeks[r + 1][1] = NullDate

\* C29: without month split the rows of the newer Heatmap hold the same
\* days in the same order as the rows of the older Heatmap
C29_SameRows ==
    (BothRendered /\ ~SplitMonthsProp) =>
        /\ Len(weeks) = Len(chunks)
        /\ \A r \in 1..Len(weeks) : RowDays(weeks[r]) = chunks[r]

\* both Heatmaps are rendered without month split for a week that starts
\* on Monday
C29_Witness ==
    /\ BothRendered /\ ~SplitMonthsProp
    /\ WeekStartProp = "monday"
    /\ Len(chunks) = 53

---------------------------------------------------------------------------
(* Properties of the LongPressButton *)

\* C28: onComplete is called only by the timer of a press that has not been
\* cancelled: no timer scheduled before a cancel runs its callback
C28_HeldPress == pressLast.op = "timeout" => ~pressLast.stale

---------------------------------------------------------------------------
(* Properties of the backup *)

\* the last sync uploaded its file and listed the directory
Rotated == syncLast.ran /\ syncLast.putOk /\ syncLast.listed /\ webDavStatus # "idle"

\* the file the last sync uploaded
Uploaded == Entry("file", filename(syncLast.timestamp))

\* the backup files of the directory once the upload is done
Present == BackupsIn(syncLast.before) \cup {Uploaded}

\* the backup files with a later timestamp than item
Later(item) == {other \in Present : other.basename[2] > item.basename[2]}

\* the backup files that fewer than N others are later than
Newest == {item \in Present : Cardinality(Later(item)) < syncLast.retentionCount}

\* C27 as stated: after a sync whose deletions all succeed the backup files
\* on the server are exactly N, the N with the latest timestamps, the
\* uploaded one among them; a failed deletion leaves the other old files
\* deleted and the sync a success; no other entry is deleted
C27_KeepsNewest ==
    Rotated =>
        /\ (syncLast.failing \cap Present = {}) =>
              /\ Cardinality(BackupsIn(server)) = syncLast.retentionCount
              /\ BackupsIn(server) = Newest
              /\ Uploaded \in server
        /\ (Present \ Newest) \ syncLast.failing \subseteq Present \ server
        /\ webDavStatus = "success"
        /\ server \ BackupsIn(server) = syncLast.before \ BackupsIn(syncLast.before)

\* C27 amended: the backup files left are the N latest of those present
\* after the upload, all of them when they are fewer than N, and the old
\* ones whose deletion failed; the uploaded file is left unless N files are
\* later than it; a failed deletion leaves the other old files deleted and
\* the sync a success; no other entry is deleted
C27_Retention ==
    Rotated =>
        /\ BackupsIn(server) = Newest \cup (syncLast.failing \cap Present)
        /\ Cardinality(Newest) =
             IF Cardinality(Present) < syncLast.retentionCount
             THEN Cardinality(Present) ELSE syncLast.retentionCount
        /\ Uploaded \in server <=>
             \/ Cardinality(Later(Uploaded)) < syncLast.retentionCount
             \/ Uploaded \in syncLast.failing
        /\ webDavStatus = "success"
        /\ server \ BackupsIn(server) = syncLast.before \ BackupsIn(syncLast.before)

\* a sync had two old files to delete: one deletion failed, the other file
\* is gone
C27_Witness ==
    /\ Rotated
    /\ \E kept \in Present \ Newest, gone \in Present \ Newest :
        /\ kept \in syncLast.failing /\ kept \in server
        /\ gone \notin server

====
